---- MODULE Spec2Model ----
(***************************************************************************)
(* NBA trade-rumor rankings: the scoring passes of streamlit_app.py and    *)
(* scrape_trade_rankings.py, the deduplicators of scrape_trade_rumors.py   *)
(* and scrape_trade_rankings.py, the two pagination loops, the two         *)
(* scrape_page parsers and the three player resolvers with their loaders.  *)
(*                                                                         *)
(* Conventions.                                                            *)
(*  - A calendar date is an integer day number; the ISO strings the code   *)
(*    compares (YYYY-MM-DD) order exactly as these integers do.            *)
(*  - A string is a sequence of character codes (ASCII), so that case      *)
(*    folding, stripping, slicing and lexicographic order are computed.    *)
(*  - A score is held in quarter points (score4 = 4 * score): the weights  *)
(*    1.0 / 0.5 / 0.25 are 4 / 2 / 1, and round(score, 2) is exact on      *)
(*    multiples of 0.25.                                                   *)
(***************************************************************************)
EXTENDS Integers, Sequences, FiniteSets, TLC

VARIABLES
    now,        \* the wall-clock date (datetime.now().date(), date.today())
    records,    \* the record list handed to a scoring pass or a deduplicator
    appOut,     \* streamlit_app.main: result of load_data + compute_player_scores
    rankOut,    \* scrape_trade_rankings.main: result of calculate_rankings
    dedupOut,   \* results of the deduplicators on `records`
    site,       \* the outside input: the page returned for the last fetch, or
                \* the roster file and text handed to a resolver
    ctl         \* the pagination loop of the running scraper, or the result
                \* of the parser / resolver that ran

vars == <<now, records, appOut, rankOut, dedupOut, site, ctl>>

----------------------------------------------------------------------------
(* Bounds of the model.                                                    *)

\* longest record list drawn as input of a scoring pass
MaxRecs == 3
\* the wall clock runs over the days 0 .. MaxNow
MaxNow == 1
\* longest record list drawn as input of a deduplicator
MaxDedupRecs == 4

----------------------------------------------------------------------------
(* Strings as sequences of character codes.                                *)

\* str.lower() on one ASCII character
LowerChar(c) == IF c \in 65..90 THEN c + 32 ELSE c

\* str.upper() on one ASCII character
UpperChar(c) == IF c \in 97..122 THEN c - 32 ELSE c

\* str.lower()
LowerStr(s) == [i \in 1..Len(s) |-> LowerChar(s[i])]

\* str.upper()
UpperStr(s) == [i \in 1..Len(s) |-> UpperChar(s[i])]

\* whitespace as str.strip() sees it (space, tab, newline, carriage return)
IsSpace(c) == c \in {32, 9, 10, 13}

\* str.strip()
Strip(s) ==
    LET keep == {i \in 1..Len(s) : ~IsSpace(s[i])}
    IN  IF keep = {} THEN <<>>
        ELSE LET lo == CHOOSE i \in keep : \A j \in keep : i <= j
                 hi == CHOOSE i \in keep : \A j \in keep : i >= j
             IN  SubSeq(s, lo, hi)

\* Python's s < t on strings: lexicographic by code point
StrLess(s, t) ==
    \E k \in 0..Len(s) :
        /\ k <= Len(t)
        /\ \A i \in 1..k : s[i] = t[i]
        /\ \/ (k = Len(s) /\ k < Len(t))
           \/ (k < Len(s) /\ k < Len(t) /\ s[k + 1] < t[k + 1])

\* s[:n]
Prefix(s, n) == SubSeq(s, 1, IF Len(s) < n THEN Len(s) ELSE n)

(* The player names and texts the inputs are drawn from.                   *)

\* "Lebron James", as guess_player re-cases the roster entry
LebronJames == <<76, 101, 98, 114, 111, 110, 32, 74, 97, 109, 101, 115>>

\* "LeBron James"
LeBronJames == <<76, 101, 66, 114, 111, 110, 32, 74, 97, 109, 101, 115>>

\* "Ja Morant"
JaMorant == <<74, 97, 32, 77, 111, 114, 97, 110, 116>>

\* "Karl-anthony Towns"
KarlanthonyTowns ==
    <<75, 97, 114, 108, 45, 97, 110, 116, 104, 111, 110, 121, 32, 84, 111, 119, 110, 115>>

\* "Karl-Anthony Towns"
KarlAnthonyTowns ==
    <<75, 97, 114, 108, 45, 65, 110, 116, 104, 111, 110, 121, 32, 84, 111, 119, 110, 115>>

\* "Lamelo Ball"
LameloBall == <<76, 97, 109, 101, 108, 111, 32, 66, 97, 108, 108>>

\* "LaMelo Ball"
LaMeloBall == <<76, 97, 77, 101, 108, 111, 32, 66, 97, 108, 108>>

\* "Demar Derozan"
DemarDerozan == <<68, 101, 109, 97, 114, 32, 68, 101, 114, 111, 122, 97, 110>>

\* "DeMar DeRozan"
DeMarDeRozan == <<68, 101, 77, 97, 114, 32, 68, 101, 82, 111, 122, 97, 110>>

----------------------------------------------------------------------------
(* Shared helpers.                                                         *)

\* the largest date of a non-empty list of rows
MaxDate(rows) ==
    CHOOSE d \in {rows[i].date : i \in DOMAIN rows} :
        \A i \in DOMAIN rows : rows[i].date <= d

\* the smallest date of a non-empty list of rows
MinDate(rows) ==
    CHOOSE d \in {rows[i].date : i \in DOMAIN rows} :
        \A i \in DOMAIN rows : d <= rows[i].date

\* the elements of a finite set laid out by a strict total order
SortSet(S, Before(_, _)) ==
    [k \in 1..Cardinality(S) |->
        CHOOSE x \in S : Cardinality({y \in S : Before(y, x)}) = k - 1]

\* a stable sort of a list of rows by date, ascending
SortByDate(rows) ==
    LET pos(i) == 1 + Cardinality({j \in DOMAIN rows :
                        \/ rows[j].date < rows[i].date
                        \/ (rows[j].date = rows[i].date /\ j < i)})
    IN  [k \in 1..Len(rows) |-> rows[CHOOSE i \in DOMAIN rows : pos(i) = k]]

----------------------------------------------------------------------------
(* streamlit_app.py                                                        *)

WINDOW_DAYS == 28
RECENT_DAYS_1 == 7
RECENT_DAYS_2 == 14

\* NAME_FIXES.get(name, name)
NAME_FIXES(name) ==
    CASE name = LebronJames      -> LeBronJames
      [] name = KarlanthonyTowns -> KarlAnthonyTowns
      [] name = LameloBall       -> LaMeloBall
      [] name = DemarDerozan     -> DeMarDeRozan
      [] OTHER                   -> name

\* apply_name_fixes
apply_name_fixes(name) == NAME_FIXES(Strip(name))

\* [a-zA-Z0-9]
IsAlnum(c) == c \in 48..57 \/ c \in 65..90 \/ c \in 97..122

\* re.sub(r"[^a-zA-Z0-9]+", "-", s): every run of other characters becomes one hyphen
RECURSIVE Hyphenate(_, _)
Hyphenate(s, acc) ==
    IF s = <<>> THEN acc
    ELSE IF IsAlnum(Head(s)) THEN Hyphenate(Tail(s), Append(acc, Head(s)))
    ELSE IF acc # <<>> /\ acc[Len(acc)] = 45 THEN Hyphenate(Tail(s), acc)
    ELSE Hyphenate(Tail(s), Append(acc, 45))

\* str.strip("-")
StripHyphens(s) ==
    LET keep == {i \in 1..Len(s) : s[i] # 45}
    IN  IF keep = {} THEN <<>>
        ELSE LET lo == CHOOSE i \in keep : \A j \in keep : i <= j
                 hi == CHOOSE i \in keep : \A j \in keep : i >= j
             IN  SubSeq(s, lo, hi)

\* slugify: 'Anthony Davis' -> 'anthony-davis'
slugify(name) ==
    LET stripped == Strip(name)
        noquote  == SelectSeq(stripped, LAMBDA c : c \notin {39, 8217, 46})
    IN  LowerStr(StripHyphens(Hyphenate(noquote, <<>>)))

\* the values load_data treats as no player: "", "player", "nan", "none"
bad_vals ==
    { <<>>,
      <<112, 108, 97, 121, 101, 114>>,
      <<110, 97, 110>>,
      <<110, 111, 110, 101>> }

\* load_data: the rows of trade_rumors.csv, normalised and sorted by date.
\* An absent or empty slug cell is the empty string.
load_data(csv) ==
    LET named == [i \in DOMAIN csv |->
                    [csv[i] EXCEPT !.player = NAME_FIXES(Strip(csv[i].player))]]
        good  == SelectSeq(named, LAMBDA r : LowerStr(r.player) \notin bad_vals)
        slugged == [i \in DOMAIN good |->
                    [good[i] EXCEPT !.slug =
                        IF Strip(good[i].slug) = <<>>
                        THEN slugify(good[i].player)
                        ELSE LowerStr(good[i].slug)]]
    IN  SortByDate(slugged)

\* get_window_bounds: (window_start, window_end) from the last date in the data
get_window_bounds(df, today) ==
    LET end == IF df = <<>> THEN today ELSE MaxDate(df)
    IN  [start |-> end - (WINDOW_DAYS - 1), end |-> end]

\* the three bucket masks of compute_player_scores, as the bucket of one row
AppBucket(days_ago) ==
    IF days_ago <= RECENT_DAYS_1 - 1 THEN "recent"
    ELSE IF days_ago >= RECENT_DAYS_1 /\ days_ago <= RECENT_DAYS_2 - 1 THEN "mid"
    ELSE IF days_ago >= RECENT_DAYS_2 /\ days_ago < WINDOW_DAYS THEN "old"
    ELSE "none"

\* the weight (in quarter points) the score formula gives a bucket
AppWeight4(bucket) ==
    CASE bucket = "recent" -> 4
      [] bucket = "mid"    -> 2
      [] bucket = "old"    -> 1
      [] OTHER             -> 0

\* AppBefore without the last_mention key: score desc, then player asc
AppBefore_NoLastMention(a, b) ==
    \/ a.score4 > b.score4
    \/ a.score4 = b.score4 /\ StrLess(a.player, b.player)
    \/ a.score4 = b.score4 /\ a.player = b.player /\ StrLess(a.slug, b.slug)

\* score desc, last_mention desc, player asc; rows tie in all three only when
\* they differ in slug, and the stable sort leaves those in groupby order
AppBefore(a, b) ==
    \/ a.score4 > b.score4
    \/ a.score4 = b.score4 /\ a.last_mention > b.last_mention
    \/ a.score4 = b.score4 /\ a.last_mention = b.last_mention
         /\ StrLess(a.player, b.player)
    \/ a.score4 = b.score4 /\ a.last_mention = b.last_mention
         /\ a.player = b.player /\ StrLess(a.slug, b.slug)

\* compute_player_scores, with the rank show_rankings assigns (index + 1)
compute_player_scores(df) ==
    IF df = <<>> THEN [marks |-> <<>>, scores |-> <<>>]
    ELSE
    LET w == get_window_bounds(df, now)
        df_window == SelectSeq(df, LAMBDA r : r.date >= w.start /\ r.date <= w.end)
        marks == [i \in DOMAIN df_window |->
                    LET d == w.end - df_window[i].date
                    IN  [player   |-> df_window[i].player,
                         slug     |-> df_window[i].slug,
                         date     |-> df_window[i].date,
                         days_ago |-> d,
                         bucket   |-> AppBucket(d),
                         weight4  |-> AppWeight4(AppBucket(d))]]
        grp == {<<marks[i].player, marks[i].slug>> : i \in DOMAIN marks}
        n(g, b) == Cardinality({i \in DOMAIN marks :
                        /\ marks[i].player = g[1] /\ marks[i].slug = g[2]
                        /\ marks[i].bucket = b})
        of(g) == SelectSeq(marks, LAMBDA m : m.player = g[1] /\ m.slug = g[2])
        row(g) == [player          |-> g[1],
                   slug            |-> g[2],
                   mentions_recent |-> n(g, "recent"),
                   mentions_mid    |-> n(g, "mid"),
                   mentions_old    |-> n(g, "old"),
                   score4          |-> n(g, "recent") * 4 + n(g, "mid") * 2 + n(g, "old"),
                   first_mention   |-> MinDate(of(g)),
                   last_mention    |-> MaxDate(of(g))]
        out == SortSet({row(g) : g \in grp}, AppBefore)
    IN  IF df_window = <<>> THEN [marks |-> <<>>, scores |-> <<>>]
        ELSE [marks  |-> marks,
              scores |-> [k \in DOMAIN out |->
                  [player          |-> apply_name_fixes(out[k].player),
                   slug            |-> out[k].slug,
                   score4          |-> out[k].score4,
                   mentions_recent |-> out[k].mentions_recent,
                   mentions_mid    |-> out[k].mentions_mid,
                   mentions_old    |-> out[k].mentions_old,
                   mentions_total  |-> out[k].mentions_recent + out[k].mentions_mid
                                        + out[k].mentions_old,
                   first_mention   |-> out[k].first_mention,
                   last_mention    |-> out[k].last_mention,
                   rank            |-> k]]]

----------------------------------------------------------------------------
(* scrape_trade_rankings.py: scoring                                       *)

SCRAPE_WINDOW_DAYS == 28

\* the weights, in quarter points (1.0, 0.5, 0.25)
WEIGHT_WEEK1 == 4
WEIGHT_WEEK2 == 2
WEIGHT_WEEKS3_4 == 1

\* the counter calculate_rankings increments for a rumor days_ago old:
\* mentions_week1 ("recent"), mentions_week2 ("mid"), mentions_weeks3_4 ("old")
RankBucket(days_ago) ==
    IF days_ago <= 7 THEN "recent"
    ELSE IF days_ago <= 14 THEN "mid"
    ELSE "old"

\* the weight the score formula gives a counter
RankWeight4(bucket) ==
    CASE bucket = "recent" -> WEIGHT_WEEK1
      [] bucket = "mid"    -> WEIGHT_WEEK2
      [] OTHER             -> WEIGHT_WEEKS3_4

\* the sort key (-score, -total_mentions, player)
RankBefore(a, b) ==
    \/ a.score4 > b.score4
    \/ a.score4 = b.score4 /\ a.total_mentions > b.total_mentions
    \/ a.score4 = b.score4 /\ a.total_mentions = b.total_mentions
         /\ StrLess(a.player, b.player)

\* the filter scrape_all_rumors ends with: r['date'] >= cutoff_date.isoformat()
cutoff_filter(all_rumors, cutoff_date) ==
    SelectSeq(all_rumors, LAMBDA r : r.date >= cutoff_date)

\* calculate_rankings, with today = datetime.now().date()
calculate_rankings(rumors, today) ==
    LET marks == [i \in DOMAIN rumors |->
                    LET d == today - rumors[i].date
                    IN  [player   |-> rumors[i].player,
                         date     |-> rumors[i].date,
                         days_ago |-> d,
                         bucket   |-> RankBucket(d),
                         weight4  |-> RankWeight4(RankBucket(d))]]
        players == {rumors[i].player : i \in DOMAIN rumors}
        n(p, b) == Cardinality({i \in DOMAIN marks :
                        marks[i].player = p /\ marks[i].bucket = b})
        of(p) == SelectSeq(rumors, LAMBDA r : r.player = p)
        row(p) == [player            |-> p,
                   score4            |-> n(p, "recent") * WEIGHT_WEEK1
                                          + n(p, "mid") * WEIGHT_WEEK2
                                          + n(p, "old") * WEIGHT_WEEKS3_4,
                   mentions_week1    |-> n(p, "recent"),
                   mentions_week2    |-> n(p, "mid"),
                   mentions_weeks3_4 |-> n(p, "old"),
                   total_mentions    |-> Len(of(p)),
                   first_mention     |-> MinDate(of(p)),
                   last_mention      |-> MaxDate(of(p))]
        sorted == SortSet({row(p) : p \in players}, RankBefore)
    IN  [marks    |-> marks,
         rankings |-> [k \in DOMAIN sorted |->
             [player            |-> sorted[k].player,
              score4            |-> sorted[k].score4,
              mentions_week1    |-> sorted[k].mentions_week1,
              mentions_week2    |-> sorted[k].mentions_week2,
              mentions_weeks3_4 |-> sorted[k].mentions_weeks3_4,
              total_mentions    |-> sorted[k].total_mentions,
              first_mention     |-> sorted[k].first_mention,
              last_mention      |-> sorted[k].last_mention,
              rank              |-> k]]]

----------------------------------------------------------------------------
(* The scoring passes as a state machine: a record list is drawn, the      *)
(* clock runs, and either program scores the list whenever it is started.  *)

\* the dates the scored records carry: the window's edges seen from day 0
ScoreDates == {0 - 28, 0 - 27, 0 - 14, 0 - 13, 0 - 7, 0 - 6, 0}

\* the players the scored records name
ScorePlayers == {LebronJames, JaMorant}

\* the one snippet the scored records carry: "x"
ScoreText == <<120>>

\* the record lists drawn as input of a scoring pass
ScoreRecord ==
    [date : ScoreDates, player : ScorePlayers, slug : {<<>>},
     text : {ScoreText}, url : {<<>>}]

\* sequences over S of length at most n
SeqUpTo(S, n) == UNION {[1..k -> S] : k \in 0..n}

\* newest first, as the site lists rumors and as scrape() writes the store
\* (df.sort_values("date", ascending=False))
NewestFirst(rows) ==
    \A i \in DOMAIN rows : \A j \in DOMAIN rows : i < j => rows[i].date >= rows[j].date

NotRun == [done |-> FALSE]

InitScore ==
    /\ now \in 0..MaxNow
    /\ records \in {rows \in SeqUpTo(ScoreRecord, MaxRecs) : NewestFirst(rows)}
    /\ appOut = NotRun
    /\ rankOut = NotRun
    /\ dedupOut = NotRun
    /\ site = <<>>
    /\ ctl = NotRun

\* streamlit_app.main: load_data, compute_player_scores, get_window_bounds
AppMain ==
    /\ LET df == load_data(records)
           res == compute_player_scores(df)
           w == get_window_bounds(df, now)
       IN  appOut' = [done |-> TRUE, df |-> df, marks |-> res.marks,
                      scores |-> res.scores,
                      window_start |-> w.start, window_end |-> w.end]
    /\ UNCHANGED <<now, records, rankOut, dedupOut, site, ctl>>

\* scrape_trade_rankings.main on the rumors scrape_all_rumors collected
RankMain ==
    /\ LET cutoff_date == now - SCRAPE_WINDOW_DAYS
           rumors == cutoff_filter(records, cutoff_date)
           res == IF rumors = <<>> THEN [marks |-> <<>>, rankings |-> <<>>]
                  ELSE calculate_rankings(rumors, now)
       IN  rankOut' = [done |-> TRUE, rumors |-> rumors, today |-> now,
                       marks |-> res.marks, rankings |-> res.rankings]
    /\ UNCHANGED <<now, records, appOut, dedupOut, site, ctl>>

\* midnight passes
Tick ==
    /\ now < MaxNow
    /\ now' = now + 1
    /\ UNCHANGED <<records, appOut, rankOut, dedupOut, site, ctl>>

NextScore == AppMain \/ RankMain \/ Tick

SpecScore == InitScore /\ [][NextScore]_vars

----------------------------------------------------------------------------
(* Properties of the scoring passes.                                       *)

\* the per-record bucket marks of a scoring pass that has run
MarksOf(out) == IF out.done THEN out.marks ELSE <<>>

\* the listed rows of each pass
AppRows == IF appOut.done THEN appOut.scores ELSE <<>>
RankRows == IF rankOut.done THEN rankOut.rankings ELSE <<>>

\* the bucket and the weight (quarter points) a record daysAgo old is to get
BucketRule(m) ==
    /\ m.days_ago \in 0..6   => (m.bucket = "recent" /\ m.weight4 = 4)
    /\ m.days_ago \in 7..13  => (m.bucket = "mid" /\ m.weight4 = 2)
    /\ m.days_ago \in 14..27 => (m.bucket = "old" /\ m.weight4 = 1)

\* C1: every scored record that is 0..6 days old counts as recent with weight
\* 1.0, 7..13 days old as mid with weight 0.5, 14..27 days old as old with
\* weight 0.25 (7 is mid, 14 is old), in both scoring passes.
C1_BucketBoundaries ==
    /\ \A i \in DOMAIN MarksOf(appOut) : BucketRule(MarksOf(appOut)[i])
    /\ \A i \in DOMAIN MarksOf(rankOut) : BucketRule(MarksOf(rankOut)[i])

\* the bucket rule as compute_player_scores alone applies it
AppBucketBoundaries ==
    \A i \in DOMAIN MarksOf(appOut) : BucketRule(MarksOf(appOut)[i])

\* the records of `rows` naming player p (after name(_)) dated asOf-27 .. asOf
InWindowOf(rows, name(_), p, asOf) ==
    {i \in DOMAIN rows :
        /\ name(rows[i].player) = p
        /\ asOf - 27 <= rows[i].date
        /\ rows[i].date <= asOf}

\* the records of a player a pass has counted in some bucket
AppCounted(p) ==
    LET hit == {k \in DOMAIN AppRows : AppRows[k].player = p}
    IN  IF hit = {} THEN 0
        ELSE LET r == AppRows[CHOOSE k \in hit : TRUE]
             IN  r.mentions_recent + r.mentions_mid + r.mentions_old

RankCounted(p) ==
    LET hit == {k \in DOMAIN RankRows : RankRows[k].player = p}
    IN  IF hit = {} THEN 0
        ELSE LET r == RankRows[CHOOSE k \in hit : TRUE]
             IN  r.mentions_week1 + r.mentions_week2 + r.mentions_weeks3_4

AppListed(p) == \E k \in DOMAIN AppRows : AppRows[k].player = p
RankListed(p) == \E k \in DOMAIN RankRows : RankRows[k].player = p

Same(x) == x

\* window exclusivity of compute_player_scores (asOf is its window_end)
AppWindowExclusive ==
    appOut.done =>
        \A p \in {apply_name_fixes(records[i].player) : i \in DOMAIN records} :
            LET inside == InWindowOf(records, apply_name_fixes, p, appOut.window_end)
            IN  /\ AppCounted(p) = Cardinality(inside)
                /\ AppListed(p) <=> inside # {}

\* window exclusivity of the rankings scraper (asOf is its today)
RankWindowExclusive ==
    rankOut.done =>
        \A p \in {records[i].player : i \in DOMAIN records} :
            LET inside == InWindowOf(records, Same, p, rankOut.today)
            IN  /\ RankCounted(p) = Cardinality(inside)
                /\ RankListed(p) <=> inside # {}

\* C2: a record contributes to a score or a bucket count, and has its player
\* listed, if and only if asOf - 27 <= date <= asOf, in both scoring passes.
C2_WindowExclusivity == AppWindowExclusive /\ RankWindowExclusive

\* C3: the evaluation date every scoring pass measures daysAgo from is the
\* maximum date of the record set it scores, never the wall clock.
C3_AsOfIsMaxDate ==
    /\ appOut.done =>
          \A i \in DOMAIN appOut.marks :
              appOut.marks[i].days_ago = MaxDate(appOut.df) - appOut.marks[i].date
    /\ rankOut.done =>
          \A i \in DOMAIN rankOut.marks :
              rankOut.marks[i].days_ago = MaxDate(rankOut.rumors) - rankOut.marks[i].date

\* the evaluation date of compute_player_scores alone
AppAsOfIsMaxDate ==
    appOut.done =>
        \A i \in DOMAIN appOut.marks :
            appOut.marks[i].days_ago = MaxDate(appOut.df) - appOut.marks[i].date


\* the order the ranking is said to have: score descending, then the
\* recent-bucket count descending, then player name ascending
RecentFirst(score_a, recent_a, name_a, score_b, recent_b, name_b) ==
    \/ score_a > score_b
    \/ score_a = score_b /\ recent_a > recent_b
    \/ score_a = score_b /\ recent_a = recent_b /\ StrLess(name_a, name_b)

\* C4: both rankings are sorted by score descending, ties by recent-bucket
\* count descending, then by player name ascending, and rank is the 1-based
\* position in that order.
C4_OrderByRecentCount ==
    /\ \A i \in DOMAIN AppRows : \A j \in DOMAIN AppRows :
          /\ AppRows[i].rank = i
          /\ i < j => RecentFirst(
                AppRows[i].score4, AppRows[i].mentions_recent, AppRows[i].player,
                AppRows[j].score4, AppRows[j].mentions_recent, AppRows[j].player)
    /\ \A i \in DOMAIN RankRows : \A j \in DOMAIN RankRows :
          /\ RankRows[i].rank = i
          /\ i < j => RecentFirst(
                RankRows[i].score4, RankRows[i].mentions_week1, RankRows[i].player,
                RankRows[j].score4, RankRows[j].mentions_week1, RankRows[j].player)

\* score descending, then a second key descending, then player name ascending
KeyedFirst(score_a, key_a, name_a, score_b, key_b, name_b) ==
    \/ score_a > score_b
    \/ score_a = score_b /\ key_a > key_b
    \/ score_a = score_b /\ key_a = key_b /\ StrLess(name_a, name_b)

\* C4 (amended): the ranking of compute_player_scores is sorted by score
\* descending, ties by last-mention date descending, then by player name
\* ascending; the ranking of calculate_rankings is sorted by score descending,
\* ties by total mention count descending, then by player name ascending; in
\* both, rank is the 1-based position, and the order is total on the listed
\* players, so the same records and asOf give the same ranks.
C4_OrderAsCoded ==
    /\ \A i \in DOMAIN AppRows : \A j \in DOMAIN AppRows :
          /\ AppRows[i].rank = i
          /\ i < j => KeyedFirst(
                AppRows[i].score4, AppRows[i].last_mention, AppRows[i].player,
                AppRows[j].score4, AppRows[j].last_mention, AppRows[j].player)
    /\ \A i \in DOMAIN RankRows : \A j \in DOMAIN RankRows :
          /\ RankRows[i].rank = i
          /\ i < j => KeyedFirst(
                RankRows[i].score4, RankRows[i].total_mentions, RankRows[i].player,
                RankRows[j].score4, RankRows[j].total_mentions, RankRows[j].player)

\* C4 witness: both passes have ranked two players of equal score, the app
\* putting the later last mention first, the scraper the larger total first.
C4_TieBrokenBySecondKey ==
    /\ \E i \in DOMAIN AppRows : \E j \in DOMAIN AppRows :
          /\ i < j
          /\ AppRows[i].score4 = AppRows[j].score4
          /\ AppRows[i].last_mention > AppRows[j].last_mention
    /\ \E i \in DOMAIN RankRows : \E j \in DOMAIN RankRows :
          /\ i < j
          /\ RankRows[i].score4 = RankRows[j].score4
          /\ RankRows[i].total_mentions > RankRows[j].total_mentions

\* the records of `rows` naming p (after name(_)) whose age on asOf is in lo..hi
AgedOf(rows, name(_), p, asOf, lo, hi) ==
    Cardinality({i \in DOMAIN rows :
        /\ name(rows[i].player) = p
        /\ asOf - rows[i].date \in lo..hi})

\* the counts and the score of every row compute_player_scores lists
AppCountsAndScore ==
    \A k \in DOMAIN AppRows :
        LET r == AppRows[k]
            asOf == appOut.window_end
        IN  /\ r.mentions_recent = AgedOf(records, apply_name_fixes, r.player, asOf, 0, 6)
            /\ r.mentions_mid = AgedOf(records, apply_name_fixes, r.player, asOf, 7, 13)
            /\ r.mentions_old = AgedOf(records, apply_name_fixes, r.player, asOf, 14, 27)
            /\ r.score4 = 4 * r.mentions_recent + 2 * r.mentions_mid + r.mentions_old

\* the counts and the score of every row calculate_rankings lists
RankCountsAndScore ==
    \A k \in DOMAIN RankRows :
        LET r == RankRows[k]
            asOf == rankOut.today
        IN  /\ r.mentions_week1 = AgedOf(records, Same, r.player, asOf, 0, 6)
            /\ r.mentions_week2 = AgedOf(records, Same, r.player, asOf, 7, 13)
            /\ r.mentions_weeks3_4 = AgedOf(records, Same, r.player, asOf, 14, 27)
            /\ r.score4 = 4 * r.mentions_week1 + 2 * r.mentions_week2
                            + r.mentions_weeks3_4

\* C5: for every listed player each bucket count is the number of the player's
\* in-window records of that bucket, and score = 1.0 * recent + 0.5 * mid +
\* 0.25 * old, in both scoring passes.
C5_CountsAndScore == AppCountsAndScore /\ RankCountsAndScore

\* no record of `rows` is dated asOf-27 .. asOf
NoneInWindow(rows, asOf) ==
    \A i \in DOMAIN rows : ~(asOf - 27 <= rows[i].date /\ rows[i].date <= asOf)

\* an empty ranking from compute_player_scores when nothing is in the window
AppEmptyRanking ==
    appOut.done /\ NoneInWindow(appOut.df, appOut.window_end) => appOut.scores = <<>>

\* C6: a record list that is empty, or has no record inside the window, gets
\* an empty ranking from both scoring passes.
C6_EmptyRanking ==
    /\ AppEmptyRanking
    /\ rankOut.done /\ NoneInWindow(rankOut.rumors, rankOut.today)
          => rankOut.rankings = <<>>

----------------------------------------------------------------------------
(* The deduplicators.                                                      *)

\* the length of the snippet prefix in the key of calculate_rankings
TextKeyLen == 100

\* the rows of a DataFrame built from a list of dicts: each row with its index
DataFrame(rows) ==
    [i \in DOMAIN rows |->
        [idx |-> i - 1, date |-> rows[i].date, player |-> rows[i].player,
         text |-> rows[i].text, url |-> rows[i].url]]

\* the clean-up filters of scrape(): dated on or after the cutoff, with a player
\* that is not blank, "nan" or "none"
cleanup(df, cutoff_date) ==
    SelectSeq(df, LAMBDA r :
        /\ r.date >= cutoff_date
        /\ Strip(r.player) # <<>>
        /\ LowerStr(r.player) \notin {<<110, 97, 110>>, <<110, 111, 110, 101>>, <<>>})

\* the subset of drop_duplicates in scrape(): date, player, url, snippet
ScrapeKey(r) == <<r.date, r.player, r.url, r.text>>

\* drop_duplicates with keep="last": the last row of every key survives
drop_duplicates_keep_last(df) ==
    SelectSeq(df, LAMBDA r :
        \A j \in DOMAIN df :
            ScrapeKey(df[j]) = ScrapeKey(r) => df[j].idx <= r.idx)

\* a deduplicator that stops after the first duplicate it removes
drop_duplicates_first_only(df) ==
    LET dup == {i \in DOMAIN df :
                    \E j \in DOMAIN df : j < i /\ ScrapeKey(df[j]) = ScrapeKey(df[i])}
    IN  IF dup = {} THEN df
        ELSE LET d == CHOOSE i \in dup : \A k \in dup : i <= k
             IN  SubSeq(df, 1, d - 1) \o SubSeq(df, d + 1, Len(df))

\* df.drop_duplicates(subset=["date", "player", "url", "snippet"]): the first
\* row of every key survives, with its index (index labels are unique)
drop_duplicates(df) ==
    SelectSeq(df, LAMBDA r :
        \A j \in DOMAIN df :
            ScrapeKey(df[j]) = ScrapeKey(r) => df[j].idx >= r.idx)

\* df.sort_values("date", ascending=False); rows of one date keep their order
sort_values_desc(df) ==
    LET pos(i) == 1 + Cardinality({j \in DOMAIN df :
                        \/ df[j].date > df[i].date
                        \/ (df[j].date = df[i].date /\ j < i)})
    IN  [k \in 1..Len(df) |-> df[CHOOSE i \in DOMAIN df : pos(i) = k]]

\* the key of a rumor in a player's list: (date, text[:100])
RumorKey(r) == <<r.date, Prefix(r.text, TextKeyLen)>>

\* player_data[player]['rumors'] after the loop of calculate_rankings: a rumor
\* is appended unless its key is among the keys already stored for the player
RECURSIVE player_rumors_loop(_, _, _)
player_rumors_loop(rumors, player, acc) ==
    IF rumors = <<>> THEN acc
    ELSE LET r == Head(rumors)
         IN  IF r.player = player
                  /\ ~\E k \in DOMAIN acc : RumorKey(acc[k]) = RumorKey(r)
             THEN player_rumors_loop(Tail(rumors), player, Append(acc, r))
             ELSE player_rumors_loop(Tail(rumors), player, acc)

player_rumors(rumors, player) == player_rumors_loop(rumors, player, <<>>)

----------------------------------------------------------------------------
(* The deduplicators as a state machine: a record list is drawn and either *)
(* deduplicator runs on it, and then once more on its own output.          *)

\* WINDOW_DAYS of scrape_trade_rumors.py
RUMORS_WINDOW_DAYS == 28

\* a snippet of 101 characters, "xxx...xA"
LongA == [i \in 1..(TextKeyLen + 1) |-> IF i <= TextKeyLen THEN 120 ELSE 65]

\* a snippet with the same first 100 characters, "xxx...xB"
LongB == [i \in 1..(TextKeyLen + 1) |-> IF i <= TextKeyLen THEN 120 ELSE 66]

\* a short snippet, "y"
Short == <<121>>

\* one record, and the records that differ from it in exactly one field
BaseRecord ==
    [date |-> 0, player |-> JaMorant, slug |-> <<>>, text |-> LongA, url |-> <<117>>]

DedupRecord ==
    { BaseRecord,
      [BaseRecord EXCEPT !.date = 0 - 1],
      [BaseRecord EXCEPT !.player = LebronJames],
      [BaseRecord EXCEPT !.text = LongB],
      [BaseRecord EXCEPT !.text = Short],
      [BaseRecord EXCEPT !.url = <<118>>] }

InitDedup ==
    /\ now = 0
    /\ records \in SeqUpTo(DedupRecord, MaxDedupRecs)
    /\ appOut = NotRun
    /\ rankOut = NotRun
    /\ dedupOut = NotRun
    /\ site = <<>>
    /\ ctl = NotRun

\* scrape(), from "Total rows before dedup" on: clean-up, dedup, sort, to_csv
ScrapeDedup ==
    /\ ~dedupOut.done
    /\ LET cutoff_date == now - RUMORS_WINDOW_DAYS
           cleaned == cleanup(DataFrame(records), cutoff_date)
           deduped == drop_duplicates(cleaned)
       IN  dedupOut' = [done |-> TRUE, by |-> "scrape", again |-> FALSE,
                        input |-> cleaned, once |-> deduped,
                        csv |-> sort_values_desc(deduped), twice |-> <<>>]
    /\ UNCHANGED <<now, records, appOut, rankOut, site, ctl>>

\* the deduplicator of scrape() on its own output
ScrapeDedupAgain ==
    /\ dedupOut.done /\ dedupOut.by = "scrape" /\ ~dedupOut.again
    /\ dedupOut' = [dedupOut EXCEPT !.again = TRUE,
                                    !.twice = drop_duplicates(dedupOut.once)]
    /\ UNCHANGED <<now, records, appOut, rankOut, site, ctl>>

\* the players a list of rumors names
PlayersOf(rumors) == {rumors[i].player : i \in DOMAIN rumors}

\* calculate_rankings on the rumors scrape_all_rumors returned: the rumor list
\* it stores for every player
RankDedup ==
    /\ ~dedupOut.done
    /\ LET rumors == cutoff_filter(records, now - SCRAPE_WINDOW_DAYS)
       IN  dedupOut' = [done |-> TRUE, by |-> "rankings", again |-> FALSE,
                        input |-> rumors,
                        once |-> [p \in PlayersOf(rumors) |-> player_rumors(rumors, p)],
                        csv |-> <<>>, twice |-> <<>>]
    /\ UNCHANGED <<now, records, appOut, rankOut, site, ctl>>

\* the deduplicator of calculate_rankings on its own output
RankDedupAgain ==
    /\ dedupOut.done /\ dedupOut.by = "rankings" /\ ~dedupOut.again
    /\ dedupOut' = [dedupOut EXCEPT
            !.again = TRUE,
            !.twice = [p \in DOMAIN dedupOut.once |->
                          player_rumors(dedupOut.once[p], p)]]
    /\ UNCHANGED <<now, records, appOut, rankOut, site, ctl>>

NextDedup == ScrapeDedup \/ ScrapeDedupAgain \/ RankDedup \/ RankDedupAgain

SpecDedup == InitDedup /\ [][NextDedup]_vars

----------------------------------------------------------------------------
(* Properties of the deduplicators.                                        *)

ByScrape == dedupOut.done /\ dedupOut.by = "scrape"
ByRankings == dedupOut.done /\ dedupOut.by = "rankings"

\* C7: deduplication is idempotent: a deduplicator run on its own output
\* returns that output unchanged.
C7_DedupIdempotent ==
    dedupOut.done /\ dedupOut.again => dedupOut.twice = dedupOut.once

\* C7 witness: the deduplicator of scrape() has dropped a row and has then run
\* again on what it kept.
C7_RanTwiceAfterDropping ==
    ByScrape /\ dedupOut.again /\ Len(dedupOut.once) < Len(dedupOut.input)

\* the key the deduplicator is said to use: player, date, snippet[:100]
ClaimKey(r) == <<r.player, r.date, Prefix(r.text, 100)>>

\* a list holds exactly one record of every ClaimKey of the input
OnePerClaimKey(input, kept) ==
    \A i \in DOMAIN input :
        Cardinality({k \in DOMAIN kept : ClaimKey(kept[k]) = ClaimKey(input[i])}) = 1

\* the rumor lists of calculate_rankings hold one record per ClaimKey
RankOnePerClaimKey ==
    ByRankings =>
        \A p \in DOMAIN dedupOut.once :
            OnePerClaimKey(SelectSeq(dedupOut.input, LAMBDA r : r.player = p),
                           dedupOut.once[p])

\* C8: two records are duplicates exactly when they agree on player, date and
\* the first 100 characters of the snippet, so each deduplicator's output
\* holds exactly one record per such key of its input.
C8_OneRecordPerClaimKey ==
    /\ ByScrape => OnePerClaimKey(dedupOut.input, dedupOut.once)
    /\ RankOnePerClaimKey

\* `kept` is `input` without every record that has an earlier record of its key
FirstOfEachKey(input, kept, Key(_)) ==
    LET first == {i \in DOMAIN input :
                    \A j \in DOMAIN input : j < i => Key(input[j]) # Key(input[i])}
    IN  /\ Len(kept) = Cardinality(first)
        /\ \A k \in DOMAIN kept :
              \E i \in first :
                  /\ kept[k] = input[i]
                  /\ Cardinality({j \in first : j < i}) = k - 1

MAX_PAGES == 100
RUMORS_MAX_PAGES == 30

\* the number of div.date-holder / div.rumor elements drawn for one page
MaxElems == 2

\* the number of leading pages whose content is drawn freely; the pages after
\* them are drawn from TailPages
MaxVariedPages == 2

\* an absent value (None) is the empty sequence, a present value v is <<v>>
None == <<>>

\* the element dates a page is drawn with: one day older than the cutoff of a
\* run started on day 0, the cutoff day itself, and yesterday
PageDates == {0 - 29, 0 - 28, 0 - 1}

\* a div.date-holder with a div.date whose text parses to a date, or does not
\* parse
DateHolder(parsed) ==
    [kind |-> "date-holder", date_div |-> TRUE, parsed |-> parsed, resolved |-> None]

\* a div.date-holder with no div.date in it, and no text that parses
NoDateDiv ==
    [kind |-> "date-holder", date_div |-> FALSE, parsed |-> None, resolved |-> None]

\* a div.rumor whose tags / snippet resolve to the given players (none or one)
Rumor(resolved) ==
    [kind |-> "rumor", date_div |-> FALSE, parsed |-> None, resolved |-> resolved]

PageElems ==
    {DateHolder(None)} \cup {DateHolder(<<d>>) : d \in PageDates}
        \cup {Rumor(None), Rumor(<<JaMorant>>)}

\* a response that is not a 200 (or a request that raised)
FailedFetch == [ok |-> FALSE, elems |-> <<>>, has_next |-> FALSE]

\* the pages the site can answer a request with
Pages ==
    {FailedFetch} \cup
    [ok : {TRUE}, elems : SeqUpTo(PageElems, MaxElems), has_next : BOOLEAN]

\* a page of yesterday's rumors that the site keeps serving, with or without a
\* next link
TailPages ==
    {FailedFetch} \cup
    [ok : {TRUE}, elems : {<<DateHolder(<<0 - 1>>), Rumor(<<JaMorant>>)>>},
     has_next : BOOLEAN]

PagesAt(page) == IF page <= MaxVariedPages THEN Pages ELSE TailPages

\* the record appended for a rumor of a date and a player
PageRecord(d, player) ==
    [date |-> d, player |-> player, slug |-> <<>>, text |-> ScoreText, url |-> <<>>]

\* the element loop of scrape_page in scrape_trade_rankings.py: a date-holder
\* with a div.date sets current_date to what its text parses to and, when that
\* is a date, oldest_date too; a date-holder without one changes nothing; a rumor under no date is skipped, any other rumor appends
\* one record per resolved player
RECURSIVE rankings_scrape_loop(_, _, _, _)
rankings_scrape_loop(elems, current_date, oldest_date, rumors) ==
    IF elems = <<>> THEN [rumors |-> rumors, oldest_date |-> oldest_date]
    ELSE LET element == Head(elems)
         IN  IF element.kind = "date-holder"
             THEN IF element.date_div
                  THEN rankings_scrape_loop(Tail(elems), element.parsed,
                           IF element.parsed # None THEN element.parsed ELSE oldest_date,
                           rumors)
                  ELSE rankings_scrape_loop(Tail(elems), current_date, oldest_date, rumors)
             ELSE IF current_date = None
                  THEN rankings_scrape_loop(Tail(elems), current_date, oldest_date, rumors)
                  ELSE rankings_scrape_loop(Tail(elems), current_date, oldest_date,
                           rumors \o [k \in DOMAIN element.resolved |->
                                         PageRecord(current_date[1], element.resolved[k])])

\* scrape_page of scrape_trade_rankings.py: (rumors, has_more, oldest_date)
rankings_scrape_page(pg) ==
    IF ~pg.ok THEN [rumors |-> <<>>, has_more |-> FALSE, oldest_date |-> None]
    ELSE LET r == rankings_scrape_loop(pg.elems, None, None, <<>>)
         IN  [rumors |-> r.rumors, has_more |-> pg.has_next,
              oldest_date |-> r.oldest_date]

\* rumor_div.find_previous("div", class_="date-holder"): the index of the
\* nearest date-holder before element i, 0 when there is none
find_previous(elems, i) ==
    LET before == {j \in 1..(i - 1) : elems[j].kind = "date-holder"}
    IN  IF before = {} THEN 0 ELSE CHOOSE j \in before : \A k \in before : k <= j

\* the rumor loop of scrape_page in scrape_trade_rumors.py, from element i on
RECURSIVE rumors_scrape_loop(_, _, _, _, _)
rumors_scrape_loop(elems, i, cutoff_date, rows, reached_old) ==
    IF i > Len(elems) THEN [rows |-> rows, reached_old |-> reached_old]
    ELSE IF elems[i].kind # "rumor"
         THEN rumors_scrape_loop(elems, i + 1, cutoff_date, rows, reached_old)
    ELSE LET h == find_previous(elems, i)
             rumor_date == IF h = 0 THEN None ELSE elems[h].parsed
         IN  IF rumor_date = None
             THEN rumors_scrape_loop(elems, i + 1, cutoff_date, rows, reached_old)
             ELSE IF rumor_date[1] < cutoff_date
             THEN rumors_scrape_loop(elems, i + 1, cutoff_date, rows, TRUE)
             ELSE IF elems[i].resolved = None
             THEN rumors_scrape_loop(elems, i + 1, cutoff_date, rows, reached_old)
             ELSE rumors_scrape_loop(elems, i + 1, cutoff_date,
                      Append(rows, PageRecord(rumor_date[1], elems[i].resolved[1])),
                      reached_old)

\* scrape_page of scrape_trade_rumors.py on a fetched page: (rows, reached_old)
rumors_scrape_page(pg, cutoff_date) ==
    IF \A i \in DOMAIN pg.elems : pg.elems[i].kind # "rumor"
    THEN [rows |-> <<>>, reached_old |-> TRUE]
    ELSE rumors_scrape_loop(pg.elems, 1, cutoff_date, <<>>, FALSE)

\* ---------------------------------------------------------------------------
\* Specification SpecPage: one run of either scraper, one page request per step
\* ---------------------------------------------------------------------------

\* the loop of a scraper about to request page 1
StartOf(prog, cutoff_date) ==
    [prog |-> prog, state |-> "FETCHING", page |-> 1, requested |-> 0,
     cutoff_date |-> cutoff_date, collected |-> <<>>, returned |-> <<>>]

InitPage ==
    /\ now = 0
    /\ records = <<>>
    /\ appOut = NotRun
    /\ rankOut = NotRun
    /\ dedupOut = NotRun
    /\ site = FailedFetch
    /\ ctl \in {StartOf("scrape_all_rumors", now - SCRAPE_WINDOW_DAYS),
                StartOf("scrape", now - RUMORS_WINDOW_DAYS)}

\* a loop that runs while page <= MAX_PAGES + 1
ScrapeAllRumorsPage_OnePageMore ==
    /\ ctl.prog = "scrape_all_rumors"
    /\ ctl.state = "FETCHING"
    /\ ctl.page <= MAX_PAGES + 1
    /\ \E pg \in PagesAt(ctl.page) :
          LET res == rankings_scrape_page(pg)
              all_rumors == ctl.collected \o res.rumors
              state == IF res.oldest_date # None /\ res.oldest_date[1] < ctl.cutoff_date
                       THEN "CUTOFF_REACHED"
                       ELSE IF ~res.has_more THEN "EXHAUSTED"
                       ELSE IF ctl.page + 1 > MAX_PAGES + 1 THEN "CEILING"
                       ELSE "FETCHING"
          IN  /\ site' = pg
              /\ ctl' = [ctl EXCEPT
                            !.state = state,
                            !.page = IF state = "FETCHING" THEN ctl.page + 1 ELSE ctl.page,
                            !.requested = ctl.requested + 1,
                            !.collected = all_rumors,
                            !.returned = IF state = "FETCHING" THEN <<>>
                                         ELSE cutoff_filter(all_rumors, ctl.cutoff_date)]
    /\ UNCHANGED <<now, records, appOut, rankOut, dedupOut>>

\* one pass of the while loop of scrape_all_rumors; when the loop ends, the
\* filter on the cutoff and the return
ScrapeAllRumorsPage ==
    /\ ctl.prog = "scrape_all_rumors"
    /\ ctl.state = "FETCHING"
    /\ ctl.page <= MAX_PAGES
    /\ \E pg \in PagesAt(ctl.page) :
          LET res == rankings_scrape_page(pg)
              all_rumors == ctl.collected \o res.rumors
              state == IF res.oldest_date # None /\ res.oldest_date[1] < ctl.cutoff_date
                       THEN "CUTOFF_REACHED"
                       ELSE IF ~res.has_more THEN "EXHAUSTED"
                       ELSE IF ctl.page + 1 > MAX_PAGES THEN "CEILING"
                       ELSE "FETCHING"
          IN  /\ site' = pg
              /\ ctl' = [ctl EXCEPT
                            !.state = state,
                            !.page = IF state = "FETCHING" THEN ctl.page + 1 ELSE ctl.page,
                            !.requested = ctl.requested + 1,
                            !.collected = all_rumors,
                            !.returned = IF state = "FETCHING" THEN <<>>
                                         ELSE cutoff_filter(all_rumors, ctl.cutoff_date)]
    /\ UNCHANGED <<now, records, appOut, rankOut, dedupOut>>

\* one pass of the for loop of scrape; a failed fetch raises out of scrape, and
\* when the loop ends the rows are cleaned, deduplicated, sorted and written
ScrapePage ==
    /\ ctl.prog = "scrape"
    /\ ctl.state = "FETCHING"
    /\ ctl.page <= RUMORS_MAX_PAGES
    /\ \E pg \in PagesAt(ctl.page) :
          LET res == rumors_scrape_page(pg, ctl.cutoff_date)
              no_rows == res.rows = <<>> /\ ctl.page > 1
              all_rows == IF no_rows \/ ~pg.ok THEN ctl.collected
                          ELSE ctl.collected \o res.rows
              state == IF ~pg.ok THEN "RAISED"
                       ELSE IF no_rows THEN "EXHAUSTED"
                       ELSE IF res.reached_old THEN "CUTOFF_REACHED"
                       ELSE IF ctl.page + 1 > RUMORS_MAX_PAGES THEN "CEILING"
                       ELSE "FETCHING"
          IN  /\ site' = pg
              /\ ctl' = [ctl EXCEPT
                            !.state = state,
                            !.page = IF state = "FETCHING" THEN ctl.page + 1 ELSE ctl.page,
                            !.requested = ctl.requested + 1,
                            !.collected = all_rows,
                            !.returned = IF state \in {"FETCHING", "RAISED"} THEN <<>>
                                         ELSE sort_values_desc(drop_duplicates(
                                                  cleanup(DataFrame(all_rows),
                                                          ctl.cutoff_date)))]
    /\ UNCHANGED <<now, records, appOut, rankOut, dedupOut>>

NextPage == ScrapeAllRumorsPage \/ ScrapePage

SpecPage == InitPage /\ [][NextPage]_vars

\* ---------------------------------------------------------------------------
\* Properties of pagination
\* ---------------------------------------------------------------------------

\* the dates parsed from the date-holders of a page
ParsedDates(pg) ==
    {pg.elems[i].parsed[1] :
        i \in {j \in DOMAIN pg.elems :
                  pg.elems[j].kind = "date-holder" /\ pg.elems[j].parsed # None}}

\* the page just fetched carries a parsed date strictly older than the cutoff,
\* that is, its minimum parsed date is older than the cutoff
OldestParsedIsOld ==
    /\ ctl.requested > 0
    /\ site.ok
    /\ \E d \in ParsedDates(site) : d < ctl.cutoff_date

\* C10: after fetching a page whose oldest (minimum) parsed date is strictly
\* older than today minus the window, the controller is in CUTOFF_REACHED (and
\* so requests no further page), whatever the order of the dates on the page.
C10_CutoffOnOldestDate ==
    OldestParsedIsOld => ctl.state = "CUTOFF_REACHED"

\* the same statement for scrape_all_rumors alone
RankingsCutoffOnOldestDate ==
    (ctl.prog = "scrape_all_rumors" /\ OldestParsedIsOld) => ctl.state = "CUTOFF_REACHED"

\* the same statement for scrape alone
RumorsCutoffOnOldestDate ==
    (ctl.prog = "scrape" /\ OldestParsedIsOld) => ctl.state = "CUTOFF_REACHED"

\* the weaker statement: after such a page scrape_all_rumors requests no
\* further page
RankingsStopsOnOldestDate ==
    (ctl.prog = "scrape_all_rumors" /\ OldestParsedIsOld) => ctl.state # "FETCHING"

\* the weaker statement: after such a page scrape requests no further page
RumorsStopsOnOldestDate ==
    (ctl.prog = "scrape" /\ OldestParsedIsOld) => ctl.state # "FETCHING"

\* the page ceiling of the scraper that is running
CeilingOf(prog) == IF prog = "scrape_all_rumors" THEN MAX_PAGES ELSE RUMORS_MAX_PAGES

\* the rumor elements (fragments) of a page
Fragments(pg) == {i \in DOMAIN pg.elems : pg.elems[i].kind = "rumor"}

\* the page just fetched has fragments and no date of it could be parsed
FragmentsButNoDate ==
    /\ ctl.requested > 0
    /\ site.ok
    /\ Fragments(site) # {}
    /\ ParsedDates(site) = {}

\* what C11 asks of a scraper after such a page
NoFalseCutoff ==
    /\ ctl.state # "CUTOFF_REACHED"
    /\ (site.has_next /\ ctl.requested < CeilingOf(ctl.prog)) => ctl.state = "FETCHING"

\* C11: a page with fragments on which no date could be parsed never moves the
\* controller to CUTOFF_REACHED, and when it has a next page and the ceiling is
\* not reached the next page is requested.
C11_NoFalseCutoff ==
    FragmentsButNoDate => NoFalseCutoff

\* C11 for scrape_all_rumors alone
RankingsNoFalseCutoff ==
    (ctl.prog = "scrape_all_rumors" /\ FragmentsButNoDate) => NoFalseCutoff

\* C11 for scrape alone
RumorsNoFalseCutoff ==
    (ctl.prog = "scrape" /\ FragmentsButNoDate) => NoFalseCutoff

\* the first half of C11 alone: no CUTOFF_REACHED after such a page
NeverCutoffWithoutDate ==
    FragmentsButNoDate => ctl.state # "CUTOFF_REACHED"

\* the date of fragment i of a page: what the nearest date-holder before it
\* parses to (None when there is no such holder or its text does not parse)
FragmentDate(pg, i) ==
    IF find_previous(pg.elems, i) = 0 THEN None
    ELSE pg.elems[find_previous(pg.elems, i)].parsed

\* the (date, player) pairs of the dated, player-resolved fragments of a page
DatedResolved(pg) ==
    {<<FragmentDate(pg, i)[1], pg.elems[i].resolved[1]>> :
        i \in {j \in Fragments(pg) :
                  FragmentDate(pg, j) # None /\ pg.elems[j].resolved # None}}

\* pagination has stopped on a fetched page, by cutoff or by exhaustion
StoppedOnPage ==
    ctl.state \in {"CUTOFF_REACHED", "EXHAUSTED"} /\ site.ok

\* the list handed on holds a record of the given date and player
HandedOn(d, player) ==
    \E k \in DOMAIN ctl.returned :
        ctl.returned[k].date = d /\ ctl.returned[k].player = player

\* C12: when pagination stops by cutoff or exhaustion, every dated,
\* player-resolved fragment of the terminating page is in the record list the
\* controller hands on, fragments older than the cutoff included.
C12_TerminatingPageKept ==
    StoppedOnPage => \A f \in DatedResolved(site) : HandedOn(f[1], f[2])

\* C12 for scrape_all_rumors alone
RankingsTerminatingPageKept ==
    (ctl.prog = "scrape_all_rumors" /\ StoppedOnPage)
        => \A f \in DatedResolved(site) : HandedOn(f[1], f[2])

\* C12 for scrape alone
RumorsTerminatingPageKept ==
    (ctl.prog = "scrape" /\ StoppedOnPage)
        => \A f \in DatedResolved(site) : HandedOn(f[1], f[2])

\* the fragments of the terminating page dated on or after the cutoff are
\* handed on
InWindowFragmentsKept ==
    StoppedOnPage =>
        \A f \in DatedResolved(site) : f[1] >= ctl.cutoff_date => HandedOn(f[1], f[2])

\* ---------------------------------------------------------------------------
\* Specification SpecPageLive: SpecPage with a loop that keeps running; each
\* request returns or times out (timeout=30 / timeout=20)
\* ---------------------------------------------------------------------------
SpecPageLive == SpecPage /\ WF_vars(NextPage)

\* C13: every run requests at most the page ceiling of its scraper and
\* terminates, even when every page is non-empty, reports a next page and
\* never reaches the cutoff.
C13_CeilingTerminates ==
    /\ [](ctl.requested <= CeilingOf(ctl.prog))
    /\ <>(ctl.state # "FETCHING")

\* C13 witness: scrape_all_rumors has stopped at the ceiling, after MAX_PAGES
\* pages that all had fragments and a next page
C13_StoppedAtCeiling ==
    /\ ctl.prog = "scrape_all_rumors"
    /\ ctl.state = "CEILING"
    /\ ctl.requested = MAX_PAGES
    /\ site.has_next
    /\ Fragments(site) # {}

\* scrape has stopped at its ceiling likewise
RumorsStoppedAtCeiling ==
    /\ ctl.prog = "scrape"
    /\ ctl.state = "CEILING"
    /\ ctl.requested = RUMORS_MAX_PAGES
    /\ Fragments(site) # {}

\* the page just fetched yields zero fragments, or has no next page
EmptyOrLastPage ==
    /\ ctl.requested > 0
    /\ site.ok
    /\ (Fragments(site) = {} \/ ~site.has_next)

\* C14: after fetching a page that yields zero fragments, or a page whose
\* next-page flag is false, the controller is in EXHAUSTED (and so requests no
\* further page).
C14_ExhaustedOnEmptyOrLast ==
    EmptyOrLastPage => ctl.state = "EXHAUSTED"

\* the weaker statement for scrape_all_rumors: it requests no further page
RankingsStopsOnEmptyOrLast ==
    (ctl.prog = "scrape_all_rumors" /\ EmptyOrLastPage) => ctl.state # "FETCHING"

\* the weaker statement for scrape: it requests no further page
RumorsStopsOnEmptyOrLast ==
    (ctl.prog = "scrape" /\ EmptyOrLastPage) => ctl.state # "FETCHING"

\* scrape_all_rumors requests no further page after a page with no next page
RankingsStopsOnLast ==
    (ctl.prog = "scrape_all_rumors" /\ ctl.requested > 0 /\ site.ok /\ ~site.has_next)
        => ctl.state # "FETCHING"

\* scrape requests no further page after a page with zero fragments
RumorsStopsOnEmpty ==
    (ctl.prog = "scrape" /\ ctl.requested > 0 /\ site.ok /\ Fragments(site) = {})
        => ctl.state # "FETCHING"

\* ---------------------------------------------------------------------------
\* Specification SpecParse: scrape_page of either scraper applied to one page
\* ---------------------------------------------------------------------------

\* the number of elements of a page handed to scrape_page
MaxParseElems == 3

\* the elements of such a page: those of PageElems and the date-holder with no
\* div.date
ParseElems == PageElems \cup {NoDateDiv}

InitParse ==
    /\ now = 0
    /\ records = <<>>
    /\ appOut = NotRun
    /\ rankOut = NotRun
    /\ dedupOut = NotRun
    /\ site \in [ok : {TRUE}, elems : SeqUpTo(ParseElems, MaxParseElems),
                 has_next : BOOLEAN]
    /\ ctl = NotRun

\* scrape_page of scrape_trade_rankings.py on the page
RankingsParse ==
    /\ ~ctl.done
    /\ ctl' = [done |-> TRUE, by |-> "scrape_trade_rankings",
               cutoff_date |-> now - SCRAPE_WINDOW_DAYS,
               rows |-> rankings_scrape_page(site).rumors]
    /\ UNCHANGED <<now, records, appOut, rankOut, dedupOut, site>>

\* scrape_page of scrape_trade_rumors.py on the page
RumorsParse ==
    /\ ~ctl.done
    /\ ctl' = [done |-> TRUE, by |-> "scrape_trade_rumors",
               cutoff_date |-> now - RUMORS_WINDOW_DAYS,
               rows |-> rumors_scrape_page(site, now - RUMORS_WINDOW_DAYS).rows]
    /\ UNCHANGED <<now, records, appOut, rankOut, dedupOut, site>>

NextParse == RankingsParse \/ RumorsParse

SpecParse == InitParse /\ [][NextParse]_vars

\* the fragments of a page whose own date context resolves: the nearest
\* date-holder before them has a date element whose text parses
DatedFragments(pg) == {i \in Fragments(pg) : FragmentDate(pg, i) # None}

\* what C15 asks of the rows scrape_page made of the page: each row is a dated,
\* player-resolved fragment at its own date, and there are no more rows than
\* such fragments
RowsOnlyFromDated ==
    /\ \A k \in DOMAIN ctl.rows :
          <<ctl.rows[k].date, ctl.rows[k].player>> \in DatedResolved(site)
    /\ Len(ctl.rows) <=
          Cardinality({i \in DatedFragments(site) : site.elems[i].resolved # None})

\* C15: a fragment whose own date context cannot be resolved (no date element,
\* or a date text that does not parse) yields no record, whatever players it
\* names; it gets neither today's date nor the date of an earlier date header.
C15_NoRecordWithoutDate ==
    ctl.done => RowsOnlyFromDated

\* C15 for scrape_page of scrape_trade_rankings.py alone
RankingsNoRecordWithoutDate ==
    (ctl.done /\ ctl.by = "scrape_trade_rankings") => RowsOnlyFromDated

\* C15 for scrape_page of scrape_trade_rumors.py alone
RumorsNoRecordWithoutDate ==
    (ctl.done /\ ctl.by = "scrape_trade_rumors") => RowsOnlyFromDated

\* C15 on pages whose date-holders all have a date element
NoRecordUnderUnparsedDate ==
    (ctl.done /\ \A i \in DOMAIN site.elems : site.elems[i] # NoDateDiv)
        => RowsOnlyFromDated

\* ---------------------------------------------------------------------------
\* Player resolution: guess_player (scrape_trade_rumors.py), is_player_tag
\* (scrape_trade_rankings.py) and infer_player_for_row
\* (fix_trade_rumors_players.py), each over the roster its own loader reads
\* ---------------------------------------------------------------------------

\* "Bronny James"
BronnyJames == <<66, 114, 111, 110, 110, 121, 32, 74, 97, 109, 101, 115>>

\* "Jalen Green"
JalenGreen == <<74, 97, 108, 101, 110, 32, 71, 114, 101, 101, 110>>

\* "Player", a header line of nba_players.txt
HeaderLine == <<80, 108, 97, 121, 101, 114>>

\* "PLAYER"
PLACEHOLDER == <<80, 76, 65, 89, 69, 82>>

\* "  ", a blank line
BlankLine == <<32, 32>>

\* "Bronny James drew interest"
TextBronny ==
    <<66, 114, 111, 110, 110, 121, 32, 74, 97, 109, 101, 115, 32, 100, 114,
      101, 119, 32, 105, 110, 116, 101, 114, 101, 115, 116>>

\* "Bronny James and LeBron James"
TextBothJames ==
    <<66, 114, 111, 110, 110, 121, 32, 74, 97, 109, 101, 115, 32, 97, 110,
      100, 32, 76, 101, 66, 114, 111, 110, 32, 74, 97, 109, 101, 115>>

\* "James drew interest"
TextJames ==
    <<74, 97, 109, 101, 115, 32, 100, 114, 101, 119, 32, 105, 110, 116, 101,
      114, 101, 115, 116>>

\* "Ja Morant met Jalen Greene"
TextGreene ==
    <<74, 97, 32, 77, 111, 114, 97, 110, 116, 32, 109, 101, 116, 32, 74, 97,
      108, 101, 110, 32, 71, 114, 101, 101, 110, 101>>

\* "lebron james"
TextLower == <<108, 101, 98, 114, 111, 110, 32, 106, 97, 109, 101, 115>>

\* "Karl-Anthony Towns stays"
TextTowns ==
    <<75, 97, 114, 108, 45, 65, 110, 116, 104, 111, 110, 121, 32, 84, 111,
      119, 110, 115, 32, 115, 116, 97, 121, 115>>

\* "no news"
TextNoName == <<110, 111, 32, 110, 101, 119, 115>>

\* "Player to be named"
TextHeader ==
    <<80, 108, 97, 121, 101, 114, 32, 116, 111, 32, 98, 101, 32, 110, 97, 109, 101, 100>>

\* the substring test `name in text`: name occurs in text from index i on
OccursAt(text, name, i) ==
    /\ i >= 1
    /\ i + Len(name) - 1 <= Len(text)
    /\ SubSeq(text, i, i + Len(name) - 1) = name

\* `name in text`
Contains(text, name) == \E i \in 1..(Len(text) + 1) : OccursAt(text, name, i)

\* \w of the re module on ASCII text
IsWordChar(c) == c \in (48..57) \cup (65..90) \cup (97..122) \cup {95}

\* \b between the characters p and p + 1 of text (p = 0 and p = Len(text) are
\* the two ends)
WordBoundary(text, p) ==
    (p \in 1..Len(text) /\ IsWordChar(text[p]))
        # (p + 1 \in 1..Len(text) /\ IsWordChar(text[p + 1]))

\* the start indexes of the matches of r"\b" + re.escape(n) + r"\b" in text
WordMatches(n, text) ==
    {i \in 1..(Len(text) + 1) :
        /\ OccursAt(text, n, i)
        /\ WordBoundary(text, i - 1)
        /\ WordBoundary(text, i + Len(n) - 1)}

\* re.search(r"\b" + re.escape(n) + r"\b", text)
re_search(n, text) == WordMatches(n, text) # {}

\* str.split(): the whitespace-separated parts
RECURSIVE split(_)
split(s) ==
    IF \A i \in DOMAIN s : IsSpace(s[i]) THEN <<>>
    ELSE LET lo == CHOOSE i \in DOMAIN s :
                      ~IsSpace(s[i]) /\ \A j \in 1..(i - 1) : IsSpace(s[j])
             hi == CHOOSE i \in lo..Len(s) :
                      /\ \A j \in lo..i : ~IsSpace(s[j])
                      /\ (i = Len(s) \/ IsSpace(s[i + 1]))
         IN  <<SubSeq(s, lo, hi)>> \o split(SubSeq(s, hi + 1, Len(s)))

\* str.capitalize()
capitalize(s) ==
    [i \in 1..Len(s) |-> IF i = 1 THEN UpperChar(s[i]) ELSE LowerChar(s[i])]

\* " ".join(parts)
RECURSIVE join(_)
join(parts) ==
    IF parts = <<>> THEN <<>>
    ELSE IF Len(parts) = 1 THEN parts[1]
    ELSE parts[1] \o <<32>> \o join(Tail(parts))

\* max(names, key=len) over a non-empty list: the first of the longest
max_by_len(names) ==
    names[CHOOSE i \in DOMAIN names :
             \A j \in DOMAIN names :
                 /\ Len(names[j]) <= Len(names[i])
                 /\ (Len(names[j]) = Len(names[i]) => i <= j)]

\* the roster file nba_players.txt: present or missing, and its lines
RosterFile(exists, lines) == [exists |-> exists, lines |-> lines]

\* str.startswith
startswith(s, prefix) == Len(s) >= Len(prefix) /\ SubSeq(s, 1, Len(prefix)) = prefix

\* load_players of scrape_trade_rumors.py: the stripped non-empty lines, upper
\* case; a missing file gives the empty list
rumors_load_players(file) ==
    IF ~file.exists THEN <<>>
    ELSE LET names == [i \in DOMAIN file.lines |-> Strip(file.lines[i])]
         IN  [i \in DOMAIN SelectSeq(names, LAMBDA n : n # <<>>) |->
                 UpperStr(SelectSeq(names, LAMBDA n : n # <<>>)[i])]

\* the re-casing of one part of the best match in guess_player
format_part(part) ==
    IF startswith(part, <<77, 67>>)
    THEN <<77, 99>> \o capitalize(SubSeq(part, 3, Len(part)))
    ELSE IF startswith(part, <<68, 69>>) /\ Len(part) > 2
    THEN <<68, 101>> \o capitalize(SubSeq(part, 3, Len(part)))
    ELSE IF startswith(part, <<76, 69>>) /\ Len(part) > 2
    THEN <<76, 101>> \o capitalize(SubSeq(part, 3, Len(part)))
    ELSE IF startswith(part, <<76, 65>>) /\ Len(part) > 2
    THEN <<76, 97>> \o capitalize(SubSeq(part, 3, Len(part)))
    ELSE capitalize(part)

\* the roster entries guess_player finds in the snippet (substring test on the
\* upper-cased text), in roster order
guess_matches(snippet, players_upper) ==
    SelectSeq(players_upper, LAMBDA name_upper : Contains(UpperStr(snippet), name_upper))

\* guess_player: None, or the longest matching roster entry re-cased
guess_player(snippet, players_upper) ==
    IF snippet = <<>> THEN None
    ELSE IF guess_matches(snippet, players_upper) = <<>> THEN None
    ELSE LET parts == split(max_by_len(guess_matches(snippet, players_upper)))
         IN  <<join([k \in DOMAIN parts |-> format_part(parts[k])])>>

\* load_known_players of scrape_trade_rankings.py: the set of the stripped
\* lines in lower case, without blank lines and lines that read PLAYER; a
\* missing file gives the empty set
load_known_players(file) ==
    IF ~file.exists THEN {}
    ELSE {LowerStr(Strip(file.lines[i])) :
             i \in {j \in DOMAIN file.lines :
                       /\ Strip(file.lines[j]) # <<>>
                       /\ UpperStr(Strip(file.lines[j])) # PLACEHOLDER}}

\* is_player_tag
is_player_tag(tag_text, known_players) == Strip(LowerStr(tag_text)) \in known_players

\* load_players of fix_trade_rumors_players.py on a file that exists: the
\* stripped lines that are not blank and do not start with "player"
fix_load_players(file) ==
    SelectSeq([i \in DOMAIN file.lines |-> Strip(file.lines[i])],
              LAMBDA name : name # <<>> /\ ~startswith(LowerStr(name), LowerStr(PLACEHOLDER)))

\* the last name build_last_name_index files a full name under
last_of(full) == LowerStr(split(full)[Len(split(full))])

\* build_last_name_index: last name -> set of full names, for the names of two
\* parts or more
build_last_name_index(names) ==
    LET named == {i \in DOMAIN names : Len(split(names[i])) >= 2}
    IN  [last \in {last_of(names[i]) : i \in named} |->
            {names[i] : i \in {j \in named : last_of(names[j]) = last}}]

\* the full names of the roster that match the text at word boundaries, in
\* roster order
full_matches(text, full_names) ==
    SelectSeq(full_names, LAMBDA name : re_search(LowerStr(name), text))

\* the names filed under a last name of four characters or more that matches
\* the text at word boundaries
last_matches(text, last_to_names) ==
    UNION {last_to_names[last] :
              last \in {l \in DOMAIN last_to_names : Len(l) >= 4 /\ re_search(l, text)}}

\* the longest names of a set: max(names, key=len) returns the one of them the
\* iteration order of the set puts first
longest_of(names) == {n \in names : \A other \in names : Len(other) <= Len(n)}

\* infer_player_for_row: the values it can return for a row with the given
\* player value, an empty title and the given snippet
infer_player_for_row(current, snippet, full_names, last_to_names) ==
    LET text == LowerStr(<<32>> \o snippet)
    IN  IF Strip(current) # <<>> /\ UpperStr(Strip(current)) # PLACEHOLDER
        THEN {Strip(current)}
        ELSE IF full_matches(text, full_names) # <<>>
        THEN {max_by_len(full_matches(text, full_names))}
        ELSE IF last_matches(text, last_to_names) # {}
        THEN longest_of(last_matches(text, last_to_names))
        ELSE {PLACEHOLDER}

\* ---------------------------------------------------------------------------
\* Specification SpecResolve: one resolution by one component, over the roster
\* file and the text it is given
\* ---------------------------------------------------------------------------

\* the number of lines of the roster file
MaxRoster == 2

\* the lines a roster file is made of
RosterLines ==
    {LeBronJames, BronnyJames, JaMorant, JalenGreen, KarlAnthonyTowns,
     HeaderLine, BlankLine}

\* the snippets and tag texts
Texts ==
    {TextBronny, TextBothJames, TextJames, TextGreene, TextLower, TextTowns,
     TextNoName, TextHeader}

\* the player value of the row handed to infer_player_for_row
Currents == {PLACEHOLDER, <<>>, JaMorant}

InitResolve ==
    /\ now = 0
    /\ records = <<>>
    /\ appOut = NotRun
    /\ rankOut = NotRun
    /\ dedupOut = NotRun
    /\ site \in [roster_file : {RosterFile(FALSE, <<>>)} \cup
                               {RosterFile(TRUE, lines) :
                                   lines \in SeqUpTo(RosterLines, MaxRoster)},
                 text : Texts, current : Currents]
    /\ ctl = NotRun

\* scrape_trade_rumors.py: load_players, then guess_player on the snippet
GuessPlayer ==
    /\ ~ctl.done
    /\ ctl' = [done |-> TRUE, by |-> "guess_player", raised |-> FALSE,
               roster |-> rumors_load_players(site.roster_file),
               player |-> guess_player(site.text,
                                       rumors_load_players(site.roster_file))]
    /\ UNCHANGED <<now, records, appOut, rankOut, dedupOut, site>>

\* scrape_trade_rankings.py: load_known_players, then is_player_tag on the tag
\* text; the record carries the tag text
PlayerTag ==
    /\ ~ctl.done
    /\ ctl' = [done |-> TRUE, by |-> "is_player_tag", raised |-> FALSE,
               roster |-> load_known_players(site.roster_file),
               player |-> IF is_player_tag(Strip(site.text),
                                           load_known_players(site.roster_file))
                          THEN <<Strip(site.text)>> ELSE None]
    /\ UNCHANGED <<now, records, appOut, rankOut, dedupOut, site>>

\* fix_trade_rumors_players.py main on a store of one row: load_players raises
\* when the file is missing; otherwise the row's player becomes what
\* infer_player_for_row returns
InferPlayer ==
    /\ ~ctl.done
    /\ IF ~site.roster_file.exists
       THEN ctl' = [done |-> TRUE, by |-> "infer_player_for_row", raised |-> TRUE,
                    roster |-> <<>>, player |-> None]
       ELSE LET full_names == fix_load_players(site.roster_file)
            IN  \E player \in infer_player_for_row(site.current, site.text, full_names,
                                  build_last_name_index(full_names)) :
                    ctl' = [done |-> TRUE, by |-> "infer_player_for_row",
                            raised |-> FALSE, roster |-> full_names,
                            player |-> <<player>>]
    /\ UNCHANGED <<now, records, appOut, rankOut, dedupOut, site>>

NextResolve == GuessPlayer \/ PlayerTag \/ InferPlayer

SpecResolve == InitResolve /\ [][NextResolve]_vars

\* ---------------------------------------------------------------------------
\* Properties of player resolution
\* ---------------------------------------------------------------------------

\* a resolution from the text was made: guess_player ran, or
\* infer_player_for_row ran on a row whose player was blank or the placeholder
ResolvedFromText ==
    /\ ctl.done
    /\ ~ctl.raised
    /\ \/ ctl.by = "guess_player"
       \/ ctl.by = "infer_player_for_row" /\ site.current \in {<<>>, PLACEHOLDER}

\* the names of the loaded roster, in lower case
RosterLower == {LowerStr(ctl.roster[i]) : i \in DOMAIN ctl.roster}

\* the roster names that match the text as full names at word boundaries,
\* compared without case
FullNameMatches == {n \in RosterLower : re_search(n, LowerStr(site.text))}

\* C16: when the text contains at least one full roster name as a word-boundary
\* match, the resolved player is one of the full-name matches, never a player
\* reached only through a last name (or another partial match).
C16_FullNameBeatsFallback ==
    (ResolvedFromText /\ FullNameMatches # {})
        => (ctl.player # None /\ LowerStr(ctl.player[1]) \in FullNameMatches)

\* C16 for infer_player_for_row alone
InferFullNameBeatsFallback ==
    (ResolvedFromText /\ ctl.by = "infer_player_for_row" /\ FullNameMatches # {})
        => (ctl.player # None /\ LowerStr(ctl.player[1]) \in FullNameMatches)

\* the start of the leftmost word-boundary occurrence of a lower-case name in
\* the text
Leftmost(n) ==
    CHOOSE i \in WordMatches(n, LowerStr(site.text)) :
        \A j \in WordMatches(n, LowerStr(site.text)) : i <= j

\* the full-name match C17 asks for: the longest, and of the longest the one
\* that occurs leftmost
LongestLeftmost ==
    CHOOSE n \in FullNameMatches :
        \A other \in FullNameMatches :
            \/ Len(other) < Len(n)
            \/ (Len(other) = Len(n) /\ Leftmost(n) <= Leftmost(other))

\* C17: when several full roster names match the text, the resolved player is
\* the longest of them and, among the longest, the one that occurs leftmost,
\* whatever the order of the roster.
C17_LongestThenLeftmost ==
    (ResolvedFromText /\ Cardinality(FullNameMatches) > 1)
        => (ctl.player # None /\ LowerStr(ctl.player[1]) = LongestLeftmost)

\* the part of C17 the code keeps: the resolved player is at least as long as
\* every full-name match
ResolvedIsLongest ==
    (ResolvedFromText /\ Cardinality(FullNameMatches) > 1)
        => (ctl.player # None
            /\ \A n \in FullNameMatches : Len(n) <= Len(ctl.player[1]))

\* C17 for infer_player_for_row alone
InferLongestThenLeftmost ==
    (ResolvedFromText /\ ctl.by = "infer_player_for_row"
        /\ Cardinality(FullNameMatches) > 1)
        => (ctl.player # None /\ LowerStr(ctl.player[1]) = LongestLeftmost)

\* the candidates of the last-name fallback: the roster names of two parts or
\* more whose last name has four characters or more and occurs in the text as a
\* whole word
FallbackCandidates ==
    {ctl.roster[i] :
        i \in {j \in DOMAIN ctl.roster :
                  /\ Len(split(ctl.roster[j])) >= 2
                  /\ Len(last_of(ctl.roster[j])) >= 4
                  /\ re_search(last_of(ctl.roster[j]), LowerStr(site.text))}}

\* the candidate C18 asks for: the longest full name, and of the longest the
\* first in lexicographic order
LongestThenLexicographic ==
    CHOOSE n \in FallbackCandidates :
        \A other \in FallbackCandidates :
            \/ Len(other) < Len(n)
            \/ (Len(other) = Len(n) /\ (other = n \/ StrLess(n, other)))

\* the fallback of infer_player_for_row decided between several candidates
FallbackAmbiguous ==
    /\ ResolvedFromText
    /\ ctl.by = "infer_player_for_row"
    /\ FullNameMatches = {}
    /\ Cardinality(FallbackCandidates) > 1

\* C18: when no full name matches and the last-name fallback leaves more than
\* one candidate, the resolved player is the candidate with the longest full
\* name, ties broken lexicographically, the same on every run.
C18_FallbackLongestThenLexicographic ==
    FallbackAmbiguous => ctl.player = <<LongestThenLexicographic>>

\* the part of C18 the code keeps: the resolved player is one of the longest
\* candidates
FallbackPicksALongest ==
    FallbackAmbiguous =>
        /\ ctl.player # None
        /\ ctl.player[1] \in FallbackCandidates
        /\ \A n \in FallbackCandidates : Len(n) <= Len(ctl.player[1])

\* the full names of the roster file: its lines, stripped, that are neither
\* blank nor the header token
CanonicalNames ==
    {Strip(site.roster_file.lines[i]) :
        i \in {j \in DOMAIN site.roster_file.lines :
                  /\ Strip(site.roster_file.lines[j]) # <<>>
                  /\ LowerStr(Strip(site.roster_file.lines[j])) # LowerStr(HeaderLine)}}

\* C19: the player of every record created or persisted is, character for
\* character, a full name of the roster: not a re-cased variant, not raw tag
\* text, not a placeholder.
C19_PlayerIsCanonical ==
    (ctl.done /\ ~ctl.raised /\ ctl.player # None) => ctl.player[1] \in CanonicalNames

\* C19 for guess_player alone
GuessPlayerIsCanonical ==
    (ctl.done /\ ctl.by = "guess_player" /\ ctl.player # None)
        => ctl.player[1] \in CanonicalNames

\* C19 for the tags of scrape_trade_rankings.py alone
TagPlayerIsCanonical ==
    (ctl.done /\ ctl.by = "is_player_tag" /\ ctl.player # None)
        => ctl.player[1] \in CanonicalNames

\* C19 for infer_player_for_row alone, on rows it resolves from the text
InferPlayerIsCanonical ==
    (ResolvedFromText /\ ctl.by = "infer_player_for_row" /\ ctl.player # None)
        => ctl.player[1] \in CanonicalNames

\* the roster source is empty or missing
NoRosterSource == ~site.roster_file.exists \/ site.roster_file.lines = <<>>

\* the loaded roster is empty
EmptyRoster ==
    IF ctl.by = "is_player_tag" THEN ctl.roster = {} ELSE ctl.roster = <<>>

\* C20: with an empty or missing roster source every component that loads the
\* roster completes without raising, with an empty roster, and resolves the
\* fragment to no player.
C20_EmptyRosterDegrades ==
    (ctl.done /\ NoRosterSource) =>
        /\ ~ctl.raised
        /\ EmptyRoster
        /\ (ctl.by = "infer_player_for_row" => site.current \in {<<>>, PLACEHOLDER})
              => ctl.player \in {None, <<PLACEHOLDER>>}

\* C20 when the roster file exists and is empty
EmptyFileDegrades ==
    (ctl.done /\ site.roster_file.exists /\ site.roster_file.lines = <<>>) =>
        /\ ~ctl.raised
        /\ EmptyRoster
        /\ (ctl.by = "infer_player_for_row" => site.current \in {<<>>, PLACEHOLDER})
              => ctl.player \in {None, <<PLACEHOLDER>>}

\* C20 for the two scrapers, whose loaders take a missing file for an empty one
ScrapersDegrade ==
    (ctl.done /\ NoRosterSource /\ ctl.by # "infer_player_for_row") =>
        /\ ~ctl.raised
        /\ EmptyRoster
        /\ ctl.player = None

\* the roster a loader must produce, in lower case: the canonical names
ExpectedRosterLower == {LowerStr(n) : n \in CanonicalNames}

\* the roster the component loaded, in lower case
LoadedRosterLower ==
    IF ctl.by = "is_player_tag" THEN ctl.roster ELSE RosterLower

\* C21: loading the roster ignores blank lines and the header token and
\* nothing else: every other line is a roster entry, and no fragment resolves
\* to the header token.
C21_LoaderSkipsBlankAndHeader ==
    (ctl.done /\ ~ctl.raised) =>
        /\ LoadedRosterLower = ExpectedRosterLower
        /\ (ctl.by # "infer_player_for_row" /\ ctl.player # None)
              => LowerStr(ctl.player[1]) # LowerStr(HeaderLine)

\* C21 for load_players of scrape_trade_rumors.py alone
RumorsLoaderSkipsHeader ==
    (ctl.done /\ ctl.by = "guess_player") =>
        /\ LoadedRosterLower = ExpectedRosterLower
        /\ ctl.player # None => LowerStr(ctl.player[1]) # LowerStr(HeaderLine)

\* C21 for the loaders of scrape_trade_rankings.py and
\* fix_trade_rumors_players.py
OtherLoadersSkipHeader ==
    (ctl.done /\ ~ctl.raised /\ ctl.by # "guess_player") =>
        /\ LoadedRosterLower = ExpectedRosterLower
        /\ (ctl.by = "is_player_tag" /\ ctl.player # None)
              => LowerStr(ctl.player[1]) # LowerStr(HeaderLine)

\* guess_player never resolves a snippet to the header token
GuessNeverResolvesHeader ==
    (ctl.done /\ ctl.by = "guess_player" /\ ctl.player # None)
        => LowerStr(ctl.player[1]) # LowerStr(HeaderLine)

\* the step fetched a page and the fetch failed
FailedFetchStep == ctl'.requested = ctl.requested + 1 /\ ~site'.ok

\* after the step the loop has stopped on one of its own stop paths, with the
\* records of the earlier pages
AbsorbedStep ==
    /\ ctl'.state \in {"EXHAUSTED", "CUTOFF_REACHED", "CEILING"}
    /\ ctl'.collected = ctl.collected

\* C22: a failed page fetch on any page ends pagination through the normal
\* stop path: the run completes, keeps the records of the earlier pages and
\* propagates no error.
C22_FailedFetchAbsorbed ==
    [][FailedFetchStep => AbsorbedStep]_vars

\* C22 for scrape_all_rumors alone
RankingsFailedFetchAbsorbed ==
    [][(ctl.prog = "scrape_all_rumors" /\ FailedFetchStep) => AbsorbedStep]_vars

\* C22 for scrape alone
RumorsFailedFetchAbsorbed ==
    [][(ctl.prog = "scrape" /\ FailedFetchStep) => AbsorbedStep]_vars

\* dedupe(R): the first record of every ClaimKey of R, in the order of R
DedupeRecords(rows) ==
    LET first == {i \in DOMAIN rows :
                    \A j \in 1..(i - 1) : ClaimKey(rows[j]) # ClaimKey(rows[i])}
    IN  [k \in 1..Cardinality(first) |->
            rows[CHOOSE i \in first : Cardinality({j \in first : j < i}) = k - 1]]

\* the scores of the app equal the scores of the deduplicated frame
AppScoresDeduped ==
    appOut.done =>
        appOut.scores = compute_player_scores(DedupeRecords(appOut.df)).scores

\* the rankings of calculate_rankings equal the rankings of the deduplicated
\* rumors, and a player's total_mentions is the length of the player's rumor
\* list
RankScoresDeduped ==
    (rankOut.done /\ rankOut.rumors # <<>>) =>
        /\ rankOut.rankings =
              calculate_rankings(DedupeRecords(rankOut.rumors), rankOut.today).rankings
        /\ \A k \in DOMAIN rankOut.rankings :
              rankOut.rankings[k].total_mentions =
                  Len(player_rumors(rankOut.rumors, rankOut.rankings[k].player))

\* C23: scoring a record list gives the same per-player scores and bucket
\* counts as scoring its deduplication, and a player's mention count is the
\* number of distinct rumors listed for the player.
C23_ScoresOverDeduped ==
    AppScoresDeduped /\ RankScoresDeduped

\* ---------------------------------------------------------------------------
\* Specification SpecExtract: scrape_page of scrape_trade_rankings.py making
\* the records of one tagged rumor after another, with the module-level
\* PLAYER_TEAMS it fills as it goes
\* ---------------------------------------------------------------------------

\* the number of rumors extracted in one run
MaxFragments == 3

\* the entries of PLAYER_TEAMS_2025 for the players of the model
PLAYER_TEAMS_2025 == [p \in {JaMorant} |-> "Memphis Grizzlies"]

\* a rumor of the page: its player tag and the team get_team_from_tags finds
\* among its tags (None when no tag is a team name)
TaggedRumors ==
    [player : {JaMorant, BronnyJames},
     tag_team : {None, <<"Los Angeles Lakers">>, <<"Utah Jazz">>}]

\* the player tag loop: a player not yet in PLAYER_TEAMS is filed under the
\* team of the rumor's tags, when there is one
store_team(PLAYER_TEAMS, player, tag_team) ==
    IF tag_team # None /\ player \notin DOMAIN PLAYER_TEAMS
    THEN [p \in DOMAIN PLAYER_TEAMS \cup {player} |->
             IF p = player THEN tag_team[1] ELSE PLAYER_TEAMS[p]]
    ELSE PLAYER_TEAMS

\* get_player_team: PLAYER_TEAMS_2025 first, then PLAYER_TEAMS, then the
\* team of the tags
get_player_team(PLAYER_TEAMS, player_name, tag_team) ==
    IF player_name \in DOMAIN PLAYER_TEAMS_2025 THEN <<PLAYER_TEAMS_2025[player_name]>>
    ELSE IF player_name \in DOMAIN PLAYER_TEAMS THEN <<PLAYER_TEAMS[player_name]>>
    ELSE tag_team

\* the record scrape_page appends for a rumor, given PLAYER_TEAMS as it is
\* when the rumor is reached
extract(PLAYER_TEAMS, rumor) ==
    [player |-> rumor.player,
     team |-> get_player_team(store_team(PLAYER_TEAMS, rumor.player, rumor.tag_team),
                              rumor.player, rumor.tag_team)]

\* PLAYER_TEAMS = {} at import
NoTeams == [p \in {} |-> ""]

InitExtract ==
    /\ now = 0
    /\ records = <<>>
    /\ appOut = NotRun
    /\ rankOut = NotRun
    /\ dedupOut = NotRun
    /\ site = <<>>
    /\ ctl = [PLAYER_TEAMS |-> NoTeams, rumors |-> <<>>]

\* the next rumor of the page is extracted
ExtractRumor ==
    /\ Len(site) < MaxFragments
    /\ \E rumor \in TaggedRumors :
          /\ site' = Append(site, rumor)
          /\ ctl' = [PLAYER_TEAMS |-> store_team(ctl.PLAYER_TEAMS, rumor.player,
                                                 rumor.tag_team),
                     rumors |-> Append(ctl.rumors, extract(ctl.PLAYER_TEAMS, rumor))]
    /\ UNCHANGED <<now, records, appOut, rankOut, dedupOut>>

NextExtract == ExtractRumor

SpecExtract == InitExtract /\ [][NextExtract]_vars

\* C24: extraction has no side effects: the record made for a rumor is, in
\* every field, the record made for it when nothing was extracted before.
C24_ExtractionIsPure ==
    \A k \in DOMAIN ctl.rumors : ctl.rumors[k] = extract(NoTeams, site[k])

\* C24 for the players listed in PLAYER_TEAMS_2025
MappedPlayersArePure ==
    \A k \in DOMAIN ctl.rumors :
        site[k].player \in DOMAIN PLAYER_TEAMS_2025
            => ctl.rumors[k] = extract(NoTeams, site[k])

\* the player of a record never depends on what was extracted before
PlayerFieldIsPure ==
    \A k \in DOMAIN ctl.rumors : ctl.rumors[k].player = site[k].player

\* ---------------------------------------------------------------------------
\* Properties of pagination: the reasons to stop
\* ---------------------------------------------------------------------------

\* the page just fetched gives none of the reasons to stop: it has a fragment
\* and a next page, no parsed date of it is older than the cutoff, and the
\* ceiling is not reached
NoReasonToStop ==
    /\ ctl.requested > 0
    /\ site.ok
    /\ Fragments(site) # {}
    /\ site.has_next
    /\ \A d \in ParsedDates(site) : d >= ctl.cutoff_date
    /\ ctl.requested < CeilingOf(ctl.prog)

\* no fragment of the page resolved to a player
NoneResolved == \A i \in Fragments(site) : site.elems[i].resolved = None

\* C27: pagination stops only for cutoff, an empty page, no next page or the
\* ceiling: after a page that has a fragment and a next page and no parsed date
\* older than the cutoff, below the ceiling, the next page is requested, even
\* if no fragment of the page resolved to a player.
C27_StopsOnlyForStatedReasons ==
    NoReasonToStop => ctl.state = "FETCHING"

\* the same statement for scrape_all_rumors alone
RankingsStopsOnlyForStatedReasons ==
    (ctl.prog = "scrape_all_rumors" /\ NoReasonToStop) => ctl.state = "FETCHING"

\* the same statement for scrape alone
RumorsStopsOnlyForStatedReasons ==
    (ctl.prog = "scrape" /\ NoReasonToStop) => ctl.state = "FETCHING"

\* scrape goes on after such a page when a fragment of it gave a row
RumorsGoesOnWhenResolved ==
    (ctl.prog = "scrape" /\ NoReasonToStop /\ ctl.state # "FETCHING") => ctl.page > 1

\* scrape_all_rumors goes on after such a page with no resolved fragment
RankingsGoesOnUnresolved ==
    ctl.prog = "scrape_all_rumors" /\ NoReasonToStop /\ NoneResolved
        /\ ctl.state = "FETCHING"

\* ---------------------------------------------------------------------------
\* Specification SpecStore: trade_rumors.csv between the runs that rewrite it
\* (scrape of scrape_trade_rumors.py, main of fix_trade_rumors_players.py) and
\* the requests of the Streamlit app, whose load_data is under st.cache_data
\* ---------------------------------------------------------------------------

\* the number of rows of a store
MaxStoreRows == 2

\* the number of runs that rewrite the store
MaxRuns == 2

\* the number of requests the app serves
MaxRequests == 2

\* the rows of a store: a rumor of today attributed to Ja Morant, and a rumor
\* of yesterday still carrying the placeholder
StoreRecord ==
    {[date |-> 0, player |-> JaMorant, slug |-> <<>>, text |-> TextGreene, url |-> <<>>],
     [date |-> 0 - 1, player |-> PLACEHOLDER, slug |-> <<>>, text |-> TextGreene,
      url |-> <<>>]}

\* the stores a run of scrape can write
StoreContents == SeqUpTo(StoreRecord, MaxStoreRows)

\* the roster main of fix_trade_rumors_players.py loads
StoreRoster == <<JaMorant>>

\* df.apply(infer_player_for_row) in main of fix_trade_rumors_players.py; with
\* this roster infer_player_for_row has one possible value per row
fix_rows(df) ==
    [i \in DOMAIN df |->
        [df[i] EXCEPT !.player =
            CHOOSE p \in infer_player_for_row(df[i].player, df[i].text, StoreRoster,
                             build_last_name_index(StoreRoster)) : TRUE]]

\* a run that is not rewriting the store
Idle == [pc |-> "idle", df |-> <<>>]

InitStore ==
    /\ now = 0
    /\ records \in StoreContents
    /\ appOut = [done |-> FALSE, n |-> 0]
    /\ rankOut = NotRun
    /\ dedupOut = NotRun
    /\ site = [cache |-> None]
    /\ ctl = [scrape |-> Idle, fix |-> Idle, latest |-> records, runs |-> 0]

\* main of streamlit_app.py for one request: load_data returns the cached
\* frame when st.cache_data holds one, and reads and cleans the file otherwise
AppRequest ==
    /\ appOut.n < MaxRequests
    /\ LET df == IF site.cache # None THEN site.cache[1] ELSE load_data(records)
       IN  /\ appOut' = [done |-> TRUE, n |-> appOut.n + 1,
                         csv |-> IF site.cache # None THEN None ELSE <<records>>,
                         df |-> df,
                         scores |-> compute_player_scores(df).scores]
           /\ site' = [cache |-> <<df>>]
    /\ UNCHANGED <<now, records, rankOut, dedupOut, ctl>>

\* df.to_csv(OUTPUT_CSV) of scrape begins: the file is opened for writing and
\* so truncated
ScrapeToCsvOpen ==
    /\ ctl.runs < MaxRuns
    /\ ctl.scrape.pc = "idle"
    /\ ctl.fix.pc # "writing"
    /\ \E df \in StoreContents :
          /\ records' = <<>>
          /\ ctl' = IF df = <<>>
                    THEN [ctl EXCEPT !.latest = df, !.runs = ctl.runs + 1]
                    ELSE [ctl EXCEPT !.scrape = [pc |-> "writing", df |-> df],
                                     !.runs = ctl.runs + 1]
    /\ UNCHANGED <<now, appOut, rankOut, dedupOut, site>>

\* the next row of scrape's frame reaches the file; after the last one the run
\* is over
ScrapeToCsvRow ==
    /\ ctl.scrape.pc = "writing"
    /\ records' = Append(records, ctl.scrape.df[Len(records) + 1])
    /\ ctl' = IF Len(records) + 1 = Len(ctl.scrape.df)
              THEN [ctl EXCEPT !.scrape = Idle, !.latest = ctl.scrape.df]
              ELSE ctl
    /\ UNCHANGED <<now, appOut, rankOut, dedupOut, site>>

\* pd.read_csv(CSV_PATH) and df.apply in main of fix_trade_rumors_players.py
FixReadCsv ==
    /\ ctl.runs < MaxRuns
    /\ ctl.fix.pc = "idle"
    /\ ctl.scrape.pc = "idle"
    /\ ctl' = [ctl EXCEPT !.fix = [pc |-> "read", df |-> fix_rows(records)],
                          !.runs = ctl.runs + 1]
    /\ UNCHANGED <<now, records, appOut, rankOut, dedupOut, site>>

\* df.to_csv(CSV_PATH) of the fix-up run begins: the file is truncated
FixToCsvOpen ==
    /\ ctl.fix.pc = "read"
    /\ ctl.scrape.pc = "idle"
    /\ records' = <<>>
    /\ ctl' = IF ctl.fix.df = <<>>
              THEN [ctl EXCEPT !.fix = Idle, !.latest = <<>>]
              ELSE [ctl EXCEPT !.fix = [pc |-> "writing", df |-> ctl.fix.df]]
    /\ UNCHANGED <<now, appOut, rankOut, dedupOut, site>>

\* the next row of the fix-up frame reaches the file
FixToCsvRow ==
    /\ ctl.fix.pc = "writing"
    /\ records' = Append(records, ctl.fix.df[Len(records) + 1])
    /\ ctl' = IF Len(records) + 1 = Len(ctl.fix.df)
              THEN [ctl EXCEPT !.fix = Idle, !.latest = ctl.fix.df]
              ELSE ctl
    /\ UNCHANGED <<now, appOut, rankOut, dedupOut, site>>

NextStore ==
    \/ AppRequest
    \/ ScrapeToCsvOpen
    \/ ScrapeToCsvRow
    \/ FixReadCsv
    \/ FixToCsvOpen
    \/ FixToCsvRow

SpecStore == InitStore /\ [][NextStore]_vars

\* ---------------------------------------------------------------------------
\* Properties of the store
\* ---------------------------------------------------------------------------

\* the step serves a request
RequestStep == appOut'.n = appOut.n + 1

\* no run is rewriting the store
StoreAtRest == ctl.scrape.pc # "writing" /\ ctl.fix.pc # "writing"

\* C25: every read recomputes the ranking from the store as it is at the time
\* of the read: a request served while no run is rewriting the store shows the
\* frame and the scores of the store's present records.
C25_ReadSeesCurrentStore ==
    [][(RequestStep /\ StoreAtRest) =>
          /\ appOut'.df = load_data(records)
          /\ appOut'.scores = compute_player_scores(load_data(records)).scores]_vars

\* the first request of a server process does show the present store
FirstReadSeesCurrentStore ==
    [][(RequestStep /\ StoreAtRest /\ appOut.n = 0) =>
          appOut'.df = load_data(records)]_vars

\* the request read the file itself
ReadStep == RequestStep /\ appOut'.csv # None

\* the record sets a reader may see whole: the last one a run finished
\* writing and the ones being written
WholeStores ==
    {ctl.latest}
        \cup (IF ctl.scrape.pc = "writing" THEN {ctl.scrape.df} ELSE {})
        \cup (IF ctl.fix.pc = "writing" THEN {ctl.fix.df} ELSE {})

\* a read sees the whole previous or the whole new record set
ReadSeesWholeStore == [][ReadStep => appOut'.csv[1] \in WholeStores]_vars

\* the step ends the rewrite of the fix-up run
FixEndStep == ctl.fix.pc # "idle" /\ ctl'.fix.pc = "idle"

\* the rumors of a record set, whoever they are attributed to
RumorsOf(df) == {<<df[i].date, df[i].text, df[i].url>> : i \in DOMAIN df}

\* the store the fix-up run leaves has every rumor of the last record set a
\* run finished writing before it
RewriteKeepsOtherRuns ==
    [][FixEndStep => RumorsOf(ctl.latest) \subseteq RumorsOf(records')]_vars

\* C26: a read that interleaves with a rewriting run sees the whole previous
\* or the whole new record set, never a partly written one, and a rewrite
\* keeps the records another run finished writing between its read and its
\* write.
C26_RewriteIsAtomic ==
    /\ [][ReadStep => appOut'.csv[1] \in WholeStores]_vars
    /\ [][FixEndStep => RumorsOf(ctl.latest) \subseteq RumorsOf(records')]_vars

\* ---------------------------------------------------------------------------
\* Specification SpecEntries: the scoring passes over records that name one
\* player in several casings and carry several slugs
\* ---------------------------------------------------------------------------

\* the number of records of a scored list
MaxEntryRecs == 2

\* "lebron"
LebronSlug == <<108, 101, 98, 114, 111, 110>>

\* the casings of one roster player, as tags and stored rows can carry them
EntryPlayers == {LeBronJames, LebronJames, UpperStr(LeBronJames)}

\* the slug cell of a stored row: none, or one that is not slugify(player)
EntrySlugs == {<<>>, LebronSlug}

EntryRecord ==
    [date : {0 - 7, 0}, player : EntryPlayers, slug : EntrySlugs,
     text : {ScoreText}, url : {<<>>}]

InitEntries ==
    /\ now \in 0..MaxNow
    /\ records \in {rows \in SeqUpTo(EntryRecord, MaxEntryRecs) : NewestFirst(rows)}
    /\ appOut = NotRun
    /\ rankOut = NotRun
    /\ dedupOut = NotRun
    /\ site = <<>>
    /\ ctl = NotRun

SpecEntries == InitEntries /\ [][NextScore]_vars

\* no two rows of the list name the same player, casing aside
OneEntryPerPlayer(rows) ==
    \A i \in DOMAIN rows : \A j \in DOMAIN rows :
        LowerStr(rows[i].player) = LowerStr(rows[j].player) => i = j

\* C28: in every ranking produced each player appears in at most one entry,
\* names compared case-insensitively, however the name was cased in the tags
\* and whichever slug the stored rows carry.
C28_OneEntryPerPlayer ==
    OneEntryPerPlayer(AppRows) /\ OneEntryPerPlayer(RankRows)

\* the same statement for the app alone
AppOneEntryPerPlayer == OneEntryPerPlayer(AppRows)

\* the same statement for calculate_rankings alone
RankOneEntryPerPlayer == OneEntryPerPlayer(RankRows)

\* the app has one row per pair of name as written and slug
AppOneEntryPerNameAndSlug ==
    \A i \in DOMAIN AppRows : \A j \in DOMAIN AppRows :
        (AppRows[i].player = AppRows[j].player /\ AppRows[i].slug = AppRows[j].slug)
            => i = j

\* the app has one row per player when the stored rows carry no slug and no
\* casing other than those NAME_FIXES brings together
AppOneEntryWithoutSlugs ==
    (\A k \in DOMAIN records :
        records[k].slug = <<>> /\ records[k].player \in {LeBronJames, LebronJames})
        => OneEntryPerPlayer(AppRows)

\* calculate_rankings has one row per name as written
RankOneEntryPerName ==
    \A i \in DOMAIN RankRows : \A j \in DOMAIN RankRows :
        RankRows[i].player = RankRows[j].player => i = j

====
